---- MODULE Spec2Model ----
(***************************************************************************)
(* The token-refresh coordination layer of the frontend HTTP client:       *)
(* services/api.ts (request gate, response interceptor, refresh queue) and *)
(* services/authService.ts (credential store, login/register/logout,       *)
(* refreshAccessToken, getCurrentUser).                                    *)
(*                                                                         *)
(* JavaScript runs the handlers on one thread.  A step of this model is    *)
(* one macrotask (a caller invoking the client, or a network event) with   *)
(* all the promise continuations (microtasks) it schedules: the axios      *)
(* request interceptors of a re-issued request and the .then of a resumed  *)
(* queue entry run before the next network event is delivered.            *)
(***************************************************************************)
EXTENDS Integers, Sequences, FiniteSets, TLC

\* ---------------------------------------------------------------- bounds
NReq == 2      \* logical requests issued by callers
Max401 == 2    \* 401 responses the server gives to one logical request
NBurst == 3    \* logical requests of a burst of resource calls (see SpecBurst)

\* ------------------------------------------------------- JavaScript values
NULL == "<null>"            \* null: getItem of a key that is not stored
UNDEFINED == "<undefined>"  \* undefined: a property that is not there
Truthy(v) == v \notin {NULL, UNDEFINED, ""}
\* conversion to string done by a template literal and by Storage.setItem
ToStr(v) == IF v = UNDEFINED THEN "undefined" ELSE IF v = NULL THEN "null" ELSE v
Bearer(token) == "Bearer " \o ToStr(token)
\* String.prototype.includes
Includes(s, p) == \E i \in 1..(Len(s) - Len(p) + 1) : SubSeq(s, i, i + Len(p) - 1) = p

\* --------------------------------------------------------- Web Storage
TOKEN_KEY == "access_token"
REFRESH_KEY == "refresh_token"
EmptyStorage == [k \in {TOKEN_KEY, REFRESH_KEY} |-> NULL]
getItem(store, key) == store[key]
setItem(store, key, v) == [store EXCEPT ![key] = ToStr(v)]
removeItem(store, key) == [store EXCEPT ![key] = NULL]

\* ------------------------------------------------ operations of a caller
\* op of a logical request: "get" is any resource call made through api
\* (interviewService, applicationService, profileService); the others are
\* the authService functions that go through api.
OpUrl == [get |-> "/interviews/", getCurrentUser |-> "/auth/user/",
          logout |-> "/auth/logout/", login |-> "/auth/login/",
          register |-> "/auth/registration/",
          refreshAccessToken |-> "/auth/token/refresh/"]
Ops == DOMAIN OpUrl

\* tokens the server issues: every issuance is a new string
AccessTok(n) == "A" \o ToString(n)
RefreshTok(n) == "R" \o ToString(n)

\* what a caller's promise settles with (k = "none": not settled yet);
\* an error is identified by the attempt (r, n) whose failure it is
NoResult == [k |-> "none", r |-> 0, n |-> 0]
Outcome(kind, r, n) == [k |-> kind, r |-> r, n |-> n]

VARIABLES
  localStorage,    \* window.localStorage, the two token keys
  sessionStorage,  \* window.sessionStorage, the two token keys
  isRefreshing,    \* api.ts: let isRefreshing
  failedQueue,     \* api.ts: let failedQueue (the requests whose resolve/reject it holds)
  pc,              \* where each logical request is
  op,              \* which operation issued it
  retry,           \* originalRequest._retry
  auth,            \* originalRequest.headers.Authorization
  cap,             \* refreshAccessToken: const refresh = getRefreshToken()
  why,             \* history: what sent the attempt now in flight or last answered
  sends,           \* history: number of transport sends of each request
  n401,            \* history: number of 401 responses each request got
  trig,            \* history: Authorization of the attempt whose 401 made r call refresh
  refreshCalls,    \* history: refresh calls the interceptor issued for each request
  result,          \* history: what the caller observed
  issued,          \* server: number of token pairs issued so far
  sessionEnded,    \* number of assignments window.location.href = "/login" (the signal only)
  window401,       \* history: 401s the coordinator took since no refresh call was in flight
  windowCalls,     \* history: refresh calls the interceptor issued in that window
  failedSinceLogin, \* history: an interceptor refresh call failed and nobody logged in since
  queuedAt,        \* history: which 401 of its window each queued request was (0: never queued)
  drained          \* history: the queue entries the last processQueue settled, in that order

vars == <<localStorage, sessionStorage, isRefreshing, failedQueue, pc, op, retry,
          auth, cap, why, sends, n401, trig, refreshCalls, result, issued, sessionEnded,
          window401, windowCalls, failedSinceLogin, queuedAt, drained>>

\* the logical requests of the run
Req == DOMAIN pc
url(r) == OpUrl[op[r]]

\* -------------------------------------------------- credential store
getAccessToken(ls) == getItem(ls, TOKEN_KEY)
getRefreshToken(ls) == getItem(ls, REFRESH_KEY)
\* mutant: the refresh token is written only where none is stored
setTokens_keepsRefresh(ls, access, refresh) ==
  IF getItem(ls, REFRESH_KEY) = NULL
    THEN setItem(setItem(ls, TOKEN_KEY, access), REFRESH_KEY, refresh)
    ELSE setItem(ls, TOKEN_KEY, access)
setTokens(ls, access, refresh) == setItem(setItem(ls, TOKEN_KEY, access), REFRESH_KEY, refresh)
\* mutant: only the access token is removed
clearTokens_accessOnly(store) == removeItem(store, TOKEN_KEY)

\* clearTokens removes the two keys from a storage area; it is applied to both areas
clearTokens(store) == removeItem(removeItem(store, TOKEN_KEY), REFRESH_KEY)

\* ------------------------------------------------------ request gate
\* mutant: only the login path is on the list
isAuthEndpoint_loginOnly(u) == Includes(u, "/auth/login")

isAuthEndpoint(u) ==
  \/ Includes(u, "/auth/login")
  \/ Includes(u, "/auth/registration")
  \/ Includes(u, "/auth/token/refresh")

\* mutant: the gate attaches nothing
RequestGate_attachesNothing(u, header, ls) == header

\* the Authorization header with which a request leaves the request interceptor
RequestGate(u, header, ls) ==
  IF ~isAuthEndpoint(u) /\ Truthy(getItem(ls, TOKEN_KEY))
    THEN Bearer(getItem(ls, TOKEN_KEY))
    ELSE header

\* mutant: no path is exempt
SkipsRefresh_never(u) == FALSE

\* response interceptor: the paths whose 401 is rejected without a refresh
SkipsRefresh(u) == Includes(u, "/auth/")

\* interceptor refresh calls in flight: axios.post awaited by the handler of r
RefreshInFlight == {r \in Req : pc[r] = "refreshing"}
\* refresh endpoint calls in flight that authService.refreshAccessToken made
ServiceRefreshInFlight == {r \in Req : pc[r] = "sent" /\ op[r] = "refreshAccessToken"}

\* the client after the module is loaded, with the requests R still to be made
Loaded(R) ==
  /\ isRefreshing = FALSE
  /\ failedQueue = <<>>
  /\ pc = [r \in R |-> "new"]
  /\ op = [r \in R |-> "get"]
  /\ retry = [r \in R |-> FALSE]
  /\ auth = [r \in R |-> UNDEFINED]
  /\ cap = [r \in R |-> NULL]
  /\ why = [r \in R |-> "first"]
  /\ sends = [r \in R |-> 0]
  /\ n401 = [r \in R |-> 0]
  /\ trig = [r \in R |-> NULL]
  /\ refreshCalls = [r \in R |-> 0]
  /\ result = [r \in R |-> NoResult]
  /\ issued = 0
  /\ sessionEnded = 0
  /\ window401 = 0
  /\ windowCalls = 0
  /\ failedSinceLogin = FALSE
  /\ queuedAt = [r \in R |-> 0]
  /\ drained = <<>>

\* the state after the module is loaded, for a run of the requests R: the
\* browser holds the tokens of an earlier session, or none
Start(R) ==
  /\ localStorage \in {EmptyStorage, setTokens(EmptyStorage, AccessTok(0), RefreshTok(0))}
  /\ sessionStorage = EmptyStorage
  /\ Loaded(R)

Init == Start(1..NReq)

\* A caller invokes the client: api.get/post(...) directly or through authService.
\* getCurrentUser returns null without a request when no access token is stored,
\* refreshAccessToken when no refresh token is stored.
Call(r, o) ==
  /\ pc[r] = "new"
  /\ IF r = 1 THEN TRUE ELSE pc[r - 1] # "new"
  /\ o = "getCurrentUser" => Truthy(getAccessToken(localStorage))
  /\ o = "refreshAccessToken" => Truthy(getRefreshToken(localStorage))
  /\ op' = [op EXCEPT ![r] = o]
  /\ cap' = [cap EXCEPT ![r] = IF o = "refreshAccessToken" THEN getRefreshToken(localStorage) ELSE NULL]
  /\ auth' = [auth EXCEPT ![r] = RequestGate(OpUrl[o], UNDEFINED, localStorage)]
  /\ sends' = [sends EXCEPT ![r] = 1]
  /\ pc' = [pc EXCEPT ![r] = "sent"]
  /\ UNCHANGED <<localStorage, sessionStorage, isRefreshing, failedQueue, retry, why,
                 n401, trig, refreshCalls, result, issued, sessionEnded, window401, windowCalls,
                 failedSinceLogin, queuedAt, drained>>

\* ------------------------------------------------ settling a caller
Range(q) == {q[i] : i \in 1..Len(q)}
\* history: the answer to the attempt of r in flight is counted
Answered(r, resp) == n401' = [n401 EXCEPT ![r] = IF resp = "401" THEN @ + 1 ELSE @]

\* mutant: login and register store the access token only
StoreOnSettle_accessOnly(o, ok, ls, body, captured) ==
  CASE o \in {"login", "register"} /\ ok -> setItem(ls, TOKEN_KEY, body.access)
    [] o = "logout" -> clearTokens(ls)
    [] o = "refreshAccessToken" /\ ok ->
         setTokens(ls, body.access, IF Truthy(body.refresh) THEN body.refresh ELSE captured)
    [] o = "refreshAccessToken" /\ ~ok -> clearTokens(ls)
    [] OTHER -> ls

\* mutant: logout clears the store only when the backend call succeeded
StoreOnSettle_logoutOnSuccess(o, ok, ls, body, captured) ==
  CASE o \in {"login", "register"} /\ ok -> setTokens(ls, body.access, body.refresh)
    [] o = "logout" /\ ok -> clearTokens(ls)
    [] o = "refreshAccessToken" /\ ok ->
         setTokens(ls, body.access, IF Truthy(body.refresh) THEN body.refresh ELSE captured)
    [] o = "refreshAccessToken" /\ ~ok -> clearTokens(ls)
    [] OTHER -> ls

\* authService: what the function does to localStorage once its api call settles
\* (ok: fulfilled with body; otherwise rejected); captured is the refresh token
\* refreshAccessToken read before the call
StoreOnSettle(o, ok, ls, body, captured) ==
  CASE o \in {"login", "register"} /\ ok -> setTokens(ls, body.access, body.refresh)
    [] o = "logout" -> clearTokens(ls)
    [] o = "refreshAccessToken" /\ ok ->
         setTokens(ls, body.access, IF Truthy(body.refresh) THEN body.refresh ELSE captured)
    [] o = "refreshAccessToken" /\ ~ok -> clearTokens(ls)
    [] OTHER -> ls

\* the same for sessionStorage: only clearTokens touches it
SessionOnSettle(o, ok, ss) ==
  IF o = "logout" \/ (o = "refreshAccessToken" /\ ~ok) THEN clearTokens(ss) ELSE ss

\* what the caller of the operation observes, given how its api call settled
Observed(o, outcome) ==
  CASE o = "logout" -> Outcome("ok", outcome.r, outcome.n)
    [] o \in {"refreshAccessToken", "getCurrentUser"} /\ outcome.k # "ok" ->
         Outcome("null", outcome.r, outcome.n)
    [] OTHER -> outcome

\* bodies the server answers with
TokenBody(n, rotated) ==
  [access |-> AccessTok(n), refresh |-> IF rotated THEN RefreshTok(n) ELSE UNDEFINED]
NoBody == [access |-> UNDEFINED, refresh |-> UNDEFINED]

\* the api promise of r settles (fulfilled: outcome.k = "ok") and the operation's
\* own continuation runs
Settle(r, outcome, body) ==
  /\ pc' = [pc EXCEPT ![r] = "done"]
  /\ result' = [result EXCEPT ![r] = Observed(op[r], outcome)]
  /\ localStorage' = StoreOnSettle(op[r], outcome.k = "ok", localStorage, body, cap[r])
  /\ sessionStorage' = SessionOnSettle(op[r], outcome.k = "ok", sessionStorage)
  /\ failedSinceLogin' = (failedSinceLogin /\ ~(op[r] \in {"login", "register"} /\ outcome.k = "ok"))

\* response interceptor, first argument: (response) => response
Fulfil(r) ==
  /\ \E rotated \in BOOLEAN :
       LET issues == op[r] \in {"login", "register", "refreshAccessToken"}
           body == IF issues
                     THEN TokenBody(issued + 1, rotated \/ op[r] # "refreshAccessToken")
                     ELSE NoBody
       IN /\ issues \/ ~rotated
          /\ Settle(r, Outcome("ok", r, sends[r]), body)
          /\ issued' = IF issues THEN issued + 1 ELSE issued
  /\ Answered(r, "200")
  /\ UNCHANGED <<isRefreshing, failedQueue, op, retry, auth, cap, why, sends, trig, refreshCalls,
                 sessionEnded, window401, windowCalls, queuedAt, drained>>

\* mutant: the fall-through resets the flag
Reject_resetsFlag(r, e) ==
  /\ Settle(r, Outcome(e, r, sends[r]), NoBody)
  /\ Answered(r, e)
  /\ isRefreshing' = FALSE
  /\ UNCHANGED <<failedQueue, op, retry, auth, cap, why, sends, trig, refreshCalls,
                 issued, sessionEnded, window401, windowCalls, queuedAt, drained>>

\* return Promise.reject(error), with nothing else done by the interceptor
Reject(r, e) ==
  /\ Settle(r, Outcome(e, r, sends[r]), NoBody)
  /\ Answered(r, e)
  /\ UNCHANGED <<isRefreshing, failedQueue, op, retry, auth, cap, why, sends, trig, refreshCalls,
                 issued, sessionEnded, window401, windowCalls, queuedAt, drained>>

\* history: the coordinator takes the 401 of r and issues c refresh calls
Window(r, c) ==
  /\ window401' = IF RefreshInFlight = {} THEN 1 ELSE window401 + 1
  /\ windowCalls' = IF RefreshInFlight = {} THEN c ELSE windowCalls + c

\* mutant: the handler does not look at the flag
AlreadyRefreshing_never == FALSE

\* mutant: the handler queues whatever the flag says
AlreadyRefreshing_always == TRUE

\* the test of if (isRefreshing), made in the same synchronous block that sets the flag
AlreadyRefreshing == isRefreshing

\* if (isRefreshing): failedQueue.push({resolve, reject}); the caller is suspended
Enqueue(r) ==
  /\ AlreadyRefreshing
  /\ failedQueue' = Append(failedQueue, r)
  /\ pc' = [pc EXCEPT ![r] = "queued"]
  /\ Answered(r, "401")
  /\ Window(r, 0)
  /\ queuedAt' = [queuedAt EXCEPT ![r] = window401']
  /\ UNCHANGED <<localStorage, sessionStorage, isRefreshing, op, retry, auth, cap,
                 why, sends, trig, refreshCalls, result, issued, sessionEnded, failedSinceLogin,
                 drained>>

\* mutant: the early return leaves the flag set (the finally block does not cover it)
NoRefreshToken_keepsFlag(r) ==
  /\ ~AlreadyRefreshing
  /\ ~Truthy(getItem(localStorage, REFRESH_KEY))
  /\ retry' = [retry EXCEPT ![r] = TRUE]
  /\ isRefreshing' = TRUE
  /\ localStorage' = clearTokens(localStorage)
  /\ sessionStorage' = clearTokens(sessionStorage)
  /\ sessionEnded' = sessionEnded + 1
  /\ pc' = [pc EXCEPT ![r] = "done"]
  /\ result' = [result EXCEPT ![r] = Outcome("401", r, sends[r])]
  /\ Answered(r, "401")
  /\ Window(r, 0)
  /\ UNCHANGED <<failedQueue, op, auth, cap, why, sends, trig, refreshCalls, issued, failedSinceLogin,
                 queuedAt, drained>>

\* _retry = true; isRefreshing = true; no refresh token stored
NoRefreshToken(r) ==
  /\ ~AlreadyRefreshing
  /\ ~Truthy(getItem(localStorage, REFRESH_KEY))
  /\ retry' = [retry EXCEPT ![r] = TRUE]
  /\ isRefreshing' = FALSE
  /\ localStorage' = clearTokens(localStorage)
  /\ sessionStorage' = clearTokens(sessionStorage)
  /\ sessionEnded' = sessionEnded + 1
  /\ pc' = [pc EXCEPT ![r] = "done"]
  /\ result' = [result EXCEPT ![r] = Outcome("401", r, sends[r])]
  /\ Answered(r, "401")
  /\ Window(r, 0)
  /\ UNCHANGED <<failedQueue, op, auth, cap, why, sends, trig, refreshCalls, issued, failedSinceLogin,
                 queuedAt, drained>>

\* mutant: the refresh call is issued without the flag being set
StartRefresh_flagNotSet(r) ==
  /\ ~AlreadyRefreshing
  /\ Truthy(getItem(localStorage, REFRESH_KEY))
  /\ retry' = [retry EXCEPT ![r] = TRUE]
  /\ isRefreshing' = FALSE
  /\ trig' = [trig EXCEPT ![r] = auth[r]]
  /\ refreshCalls' = [refreshCalls EXCEPT ![r] = @ + 1]
  /\ pc' = [pc EXCEPT ![r] = "refreshing"]
  /\ Answered(r, "401")
  /\ Window(r, 1)
  /\ UNCHANGED <<localStorage, sessionStorage, failedQueue, op, auth, cap, why, sends,
                 result, issued, sessionEnded, failedSinceLogin, queuedAt, drained>>

\* mutant: the request is not marked as retried
StartRefresh_notMarked(r) ==
  /\ ~AlreadyRefreshing
  /\ Truthy(getItem(localStorage, REFRESH_KEY))
  /\ retry' = retry
  /\ isRefreshing' = TRUE
  /\ trig' = [trig EXCEPT ![r] = auth[r]]
  /\ refreshCalls' = [refreshCalls EXCEPT ![r] = @ + 1]
  /\ pc' = [pc EXCEPT ![r] = "refreshing"]
  /\ Answered(r, "401")
  /\ Window(r, 1)
  /\ UNCHANGED <<localStorage, sessionStorage, failedQueue, op, auth, cap, why, sends,
                 result, issued, sessionEnded, failedSinceLogin, queuedAt, drained>>

\* _retry = true; isRefreshing = true; await axios.post(refresh endpoint)
StartRefresh(r) ==
  /\ ~AlreadyRefreshing
  /\ Truthy(getItem(localStorage, REFRESH_KEY))
  /\ retry' = [retry EXCEPT ![r] = TRUE]
  /\ isRefreshing' = TRUE
  /\ trig' = [trig EXCEPT ![r] = auth[r]]
  /\ refreshCalls' = [refreshCalls EXCEPT ![r] = @ + 1]
  /\ pc' = [pc EXCEPT ![r] = "refreshing"]
  /\ Answered(r, "401")
  /\ Window(r, 1)
  /\ UNCHANGED <<localStorage, sessionStorage, failedQueue, op, auth, cap, why, sends,
                 result, issued, sessionEnded, failedSinceLogin, queuedAt, drained>>

\* the 401 branch of the response interceptor
Coordinate(r) ==
  IF SkipsRefresh(url(r))
    THEN Reject(r, "401")
    ELSE Enqueue(r) \/ NoRefreshToken(r) \/ StartRefresh(r)

\* mutant: the handler does not look at _retry
ErrorHandler_ignoresRetry(r, e) ==
  IF e = "401"
    THEN Coordinate(r)
    ELSE Reject(r, e)

\* response interceptor, second argument: async (error) => ...
\* e is the status of the error response, or "network" when there is none
ErrorHandler(r, e) ==
  IF e = "401" /\ ~retry[r]
    THEN Coordinate(r)
    ELSE Reject(r, e)

\* the transport delivers the response of an in-flight request
Respond(r, resp) ==
  /\ pc[r] = "sent"
  /\ resp = "401" => n401[r] < Max401
  /\ IF resp = "200" THEN Fulfil(r) ELSE ErrorHandler(r, resp)

\* ------------------------------------------- the refresh call settles
\* mutant: the forEach body looks at the token only
processQueue_ignoresError(error, token) ==
  IF Truthy(token) THEN "resolve" ELSE "nothing"

\* processQueue(error, token): what the forEach body does with every queue entry;
\* error is null (NoResult) or the error the refresh call threw
processQueue(error, token) ==
  IF error # NoResult THEN "reject"
  ELSE IF Truthy(token) THEN "resolve"
  ELSE "nothing"

\* mutant: the entries are taken from the end of the array
forEach_lastFirst(q) == [i \in 1..Len(q) |-> q[Len(q) + 1 - i]]

\* failedQueue.forEach: the entries in the order the callback is applied to them
forEach(q) == [i \in 1..Len(q) |-> q[i]]

\* the .then of a queue entry that was resolved with token: the header it sets
Resumed(token) == Bearer(token)

\* mutant: the re-issued requests pass the gate before the new token is stored
RefreshSucceeded_reissuesBeforeWrite(r, access, newRefresh) ==
  LET ls1 == setItem(localStorage, TOKEN_KEY, access)
      ls2 == IF Truthy(newRefresh) THEN setItem(ls1, REFRESH_KEY, newRefresh) ELSE ls1
      how == processQueue(NoResult, access)
      resumed == IF how = "resolve" THEN Range(failedQueue) ELSE {}
      header(q) == RequestGate(url(q), IF q = r THEN Bearer(access) ELSE Resumed(access),
                               localStorage)
      again == resumed \cup {r}
  IN /\ localStorage' = ls2
     /\ failedQueue' = <<>>
     /\ isRefreshing' = FALSE
     /\ auth' = [q \in Req |-> IF q \in again THEN header(q) ELSE auth[q]]
     /\ pc' = [q \in Req |-> IF q \in again THEN "sent" ELSE pc[q]]
     /\ sends' = [q \in Req |-> IF q \in again THEN sends[q] + 1 ELSE sends[q]]
     /\ why' = [q \in Req |->
          IF q = r THEN "refresher" ELSE IF q \in resumed THEN "resumed" ELSE why[q]]
     /\ drained' = IF how = "resolve" THEN forEach(failedQueue) ELSE <<>>
     /\ UNCHANGED <<sessionStorage, result, sessionEnded, failedSinceLogin>>

\* try block after the await: the refresh endpoint answered 2xx with body
\* {access, refresh: newRefresh} (a property that is missing reads undefined)
RefreshSucceeded(r, access, newRefresh) ==
  LET ls1 == setItem(localStorage, TOKEN_KEY, access)
      ls2 == IF Truthy(newRefresh) THEN setItem(ls1, REFRESH_KEY, newRefresh) ELSE ls1
      how == processQueue(NoResult, access)
      resumed == IF how = "resolve" THEN Range(failedQueue) ELSE {}
      header(q) == RequestGate(url(q), IF q = r THEN Bearer(access) ELSE Resumed(access), ls2)
      again == resumed \cup {r}
  IN /\ localStorage' = ls2
     /\ failedQueue' = <<>>
     /\ isRefreshing' = FALSE
     /\ auth' = [q \in Req |-> IF q \in again THEN header(q) ELSE auth[q]]
     /\ pc' = [q \in Req |-> IF q \in again THEN "sent" ELSE pc[q]]
     /\ sends' = [q \in Req |-> IF q \in again THEN sends[q] + 1 ELSE sends[q]]
     /\ why' = [q \in Req |->
          IF q = r THEN "refresher" ELSE IF q \in resumed THEN "resumed" ELSE why[q]]
     /\ drained' = IF how = "resolve" THEN forEach(failedQueue) ELSE <<>>
     /\ UNCHANGED <<sessionStorage, result, sessionEnded, failedSinceLogin>>

\* mutant: a transport error of the refresh call leaves the tokens in place
RefreshFailed_networkKeepsTokens(r, refreshError) ==
  LET how == processQueue(refreshError, NULL)
      rejected == IF how = "reject" THEN Range(failedQueue) ELSE {}
  IN /\ failedQueue' = <<>>
     /\ localStorage' = IF refreshError.k = "refreshNetwork"
                         THEN localStorage ELSE clearTokens(localStorage)
     /\ sessionStorage' = clearTokens(sessionStorage)
     /\ sessionEnded' = sessionEnded + 1
     /\ isRefreshing' = FALSE
     /\ pc' = [q \in Req |-> IF q \in rejected \cup {r} THEN "done" ELSE pc[q]]
     /\ result' = [q \in Req |-> IF q \in rejected \cup {r} THEN refreshError ELSE result[q]]
     /\ failedSinceLogin' = TRUE
     /\ drained' = IF how = "reject" THEN forEach(failedQueue) ELSE <<>>
     /\ UNCHANGED <<auth, why, sends>>

\* catch block: the refresh call was rejected, failed in transport, or the
\* destructuring of response.data threw; refreshError is what was thrown
RefreshFailed(r, refreshError) ==
  LET how == processQueue(refreshError, NULL)
      rejected == IF how = "reject" THEN Range(failedQueue) ELSE {}
  IN /\ failedQueue' = <<>>
     /\ localStorage' = clearTokens(localStorage)
     /\ sessionStorage' = clearTokens(sessionStorage)
     /\ sessionEnded' = sessionEnded + 1
     /\ isRefreshing' = FALSE
     /\ pc' = [q \in Req |-> IF q \in rejected \cup {r} THEN "done" ELSE pc[q]]
     /\ result' = [q \in Req |-> IF q \in rejected \cup {r} THEN refreshError ELSE result[q]]
     /\ failedSinceLogin' = TRUE
     /\ drained' = IF how = "reject" THEN forEach(failedQueue) ELSE <<>>
     /\ UNCHANGED <<auth, why, sends>>

\* answers of the refresh endpoint to the interceptor's axios.post
RefreshAnswers == {"rotated", "access", "noAccess", "emptyAccess", "nullBody",
                   "rejected", "network"}

\* the awaited axios.post of the refreshing request r settles; try/catch/finally
RefreshSettle(r, answer) ==
  /\ pc[r] = "refreshing"
  /\ CASE answer = "rotated" ->
            RefreshSucceeded(r, AccessTok(issued + 1), RefreshTok(issued + 1))
       [] answer = "access" -> RefreshSucceeded(r, AccessTok(issued + 1), UNDEFINED)
       [] answer = "noAccess" -> RefreshSucceeded(r, UNDEFINED, UNDEFINED)
       [] answer = "emptyAccess" -> RefreshSucceeded(r, "", UNDEFINED)
       [] answer = "nullBody" -> RefreshFailed(r, Outcome("TypeError", r, 0))
       [] answer = "rejected" -> RefreshFailed(r, Outcome("refresh401", r, 0))
       [] answer = "network" -> RefreshFailed(r, Outcome("refreshNetwork", r, 0))
  /\ issued' = IF answer \in {"rotated", "access"} THEN issued + 1 ELSE issued
  /\ UNCHANGED <<op, retry, cap, n401, trig, refreshCalls, window401, windowCalls, queuedAt>>

Next ==
  \/ \E r \in 1..NReq, o \in Ops : Call(r, o)
  \/ \E r \in 1..NReq, answer \in RefreshAnswers : RefreshSettle(r, answer)
  \/ \E r \in 1..NReq, resp \in {"200", "401", "500", "network"} : Respond(r, resp)

Spec == Init /\ [][Next]_vars

\* A burst: NBurst callers making resource calls through api, with logout as the
\* only authService operation.
BurstOps == {"get", "logout"}
InitBurst == Start(1..NBurst)
NextBurst ==
  \/ \E r \in 1..NBurst, o \in BurstOps : Call(r, o)
  \/ \E r \in 1..NBurst, answer \in RefreshAnswers : RefreshSettle(r, answer)
  \/ \E r \in 1..NBurst, resp \in {"200", "401", "500", "network"} : Respond(r, resp)

SpecBurst == InitBurst /\ [][NextBurst]_vars

\* The credential store on its own: setTokens and clearTokens called directly
\* (both are exported), on storage areas with any contents.
TokenValues == {"", "A0", "R0"}
Stores == [{TOKEN_KEY, REFRESH_KEY} -> TokenValues \cup {NULL}]
client == <<isRefreshing, failedQueue, pc, op, retry, auth, cap, why, sends, n401,
            trig, refreshCalls, result, issued, sessionEnded, window401, windowCalls,
            failedSinceLogin, queuedAt, drained>>
InitStore ==
  /\ localStorage \in Stores
  /\ sessionStorage \in Stores
  /\ Loaded({})
SetTokens(access, refresh) ==
  /\ localStorage' = setTokens(localStorage, access, refresh)
  /\ UNCHANGED <<sessionStorage, client>>
ClearTokens ==
  /\ localStorage' = clearTokens(localStorage)
  /\ sessionStorage' = clearTokens(sessionStorage)
  /\ UNCHANGED client
NextStore ==
  \/ \E access, refresh \in TokenValues : SetTokens(access, refresh)
  \/ ClearTokens

SpecStore == InitStore /\ [][NextStore]_vars

\* ===================================================================
\* Properties
\* ===================================================================

\* a non-auth path: one the response interceptor does not exempt
NonAuthPath(u) == ~Includes(u, "/auth/")
\* the step delivers a 401 response to the in-flight attempt of r
Gets401(r) == pc[r] = "sent" /\ n401'[r] = n401[r] + 1
RefreshErrors == {"refresh401", "refreshNetwork"}

\* C1: exactly-once refresh.  Of the 401 responses (two or more) that the
\* coordinator takes from the first one, delivered with no refresh call in
\* flight, until that refresh call settles, exactly one makes the interceptor
\* call the refresh endpoint; while the call is in flight all the others are in
\* the queue.
C1_ExactlyOneRefresh ==
  /\ window401 >= 2 => windowCalls = 1
  /\ RefreshInFlight # {} =>
       /\ windowCalls = 1
       /\ Cardinality(RefreshInFlight) = 1
       /\ Len(failedQueue) = window401 - 1
       /\ \A q \in Range(failedQueue) : pc[q] = "queued"

C1_Witness ==
  /\ RefreshInFlight # {}
  /\ window401 >= 2
  /\ Len(failedQueue) >= 1

\* C2: at most one call to the refresh endpoint is in flight, counting the
\* calls of the response interceptor and those of authService.refreshAccessToken.
C2_AtMostOneRefreshInFlight ==
  Cardinality(RefreshInFlight) + Cardinality(ServiceRefreshInFlight) <= 1

\* the step in which the refresh call awaited by r succeeds with a new access token:
\* r goes from awaiting the call to having its request in flight again
RefreshSucceeds(r) == pc[r] = "refreshing" /\ pc'[r] = "sent"
\* the step in which the refresh call awaited by r fails: r is rejected
RefreshFails(r) ==
  pc[r] = "refreshing" /\ pc'[r] = "done" /\ result'[r].k \in RefreshErrors
\* the attempt of r now in flight is a re-issue made after a refresh
ReissuedInFlight(r) == pc[r] = "sent" /\ why[r] \in {"refresher", "resumed"}

\* C3: all-or-nothing on success.  When the refresh call succeeds with a newly
\* issued access token T, the refreshing request and every queued request are sent once more,
\* each with Authorization "Bearer T"; and the answer to a re-issued attempt,
\* whatever it is, is what the caller of that request observes.
C3_ReissuedOnceAndObserved ==
  [][\A r \in Req :
       /\ RefreshSucceeds(r) /\ issued' = issued + 1 =>
            \A q \in Range(failedQueue) \cup {r} :
              /\ pc'[q] = "sent"
              /\ sends'[q] = sends[q] + 1
              /\ auth'[q] = "Bearer " \o AccessTok(issued')
       /\ ReissuedInFlight(r) /\ pc'[r] # "sent" =>
            /\ pc'[r] = "done"
            /\ result'[r].r = r
            /\ result'[r].n = sends[r]
     ]_vars

\* C4: all-or-nothing on failure.  When the refresh call fails, every queued
\* request is rejected with the error of the refresh call, and no request is
\* sent to the transport in that step: neither a queued one nor the refreshing one.
C4_AllRejectedOnFailure ==
  [][\A r \in Req :
       RefreshFails(r) =>
         /\ \A q \in Range(failedQueue) :
              /\ pc[q] = "queued"
              /\ pc'[q] = "done"
              /\ result'[q] = result'[r]
         /\ result'[r].r = r
         /\ sends' = sends
         /\ \A q \in Req : pc'[q] = "sent" => pc[q] = "sent"
     ]_vars

C4_Witness ==
  \E r, q \in Req :
    /\ q # r
    /\ pc[q] = "done" /\ pc[r] = "done"
    /\ result[r] \in {Outcome(k, r, 0) : k \in RefreshErrors}
    /\ result[q] = result[r]
    /\ sends[q] = 1 /\ sends[r] = 1

\* C5: no request is left queued.  A caller suspended as a queue entry is in
\* failedQueue and a refresh is in progress: once a refresh call has settled,
\* whatever its result, every entry of the queue has been resumed or rejected.
C5_NoRequestLeftQueued ==
  \A r \in Req : pc[r] = "queued" => isRefreshing /\ r \in Range(failedQueue)

\* C6: no refresh loop.  When the attempt re-issued after a refresh (of the
\* request that drove the refresh or of one that was queued) gets 401, the
\* request is rejected to its caller with that 401: after exactly one retry, with
\* no refresh call issued and without being queued.
C6_NoRefreshLoop ==
  [][\A r \in Req :
       ReissuedInFlight(r) /\ Gets401(r) =>
         /\ pc'[r] = "done"
         /\ result'[r] = Outcome("401", r, 2)
         /\ sends[r] = 2
         /\ RefreshInFlight' = RefreshInFlight
         /\ failedQueue' = failedQueue
     ]_vars

\* C7: every 401 response to a not-yet-retried request whose path is outside
\* the allow-list (login, registration, refresh) is handed to the refresh
\* coordinator: the request becomes the refresher (marked _retry) or is queued.
C7_Every401Coordinated ==
  [][\A r \in Req :
       (/\ Gets401(r)
        /\ ~retry[r]
        /\ ~Includes(url(r), "/auth/login")
        /\ ~Includes(url(r), "/auth/registration")
        /\ ~Includes(url(r), "/auth/token/refresh"))
       => retry'[r] \/ pc'[r] = "queued"
     ]_vars

\* the access token an attempt carried, for a header "Bearer <token>" put by the gate
CarriesToken(header) == header \notin {NULL, UNDEFINED}

C9_NoRefreshTokenEndsSession ==
  [][\A r \in Req :
       (/\ Gets401(r)
        /\ ~retry[r]
        /\ NonAuthPath(url(r))
        /\ ~isRefreshing
        /\ getRefreshToken(localStorage) = NULL)
       =>
        /\ RefreshInFlight' = {}
        /\ getAccessToken(localStorage') = NULL
        /\ getRefreshToken(localStorage') = NULL
        /\ getItem(sessionStorage', TOKEN_KEY) = NULL
        /\ getItem(sessionStorage', REFRESH_KEY) = NULL
        /\ sessionEnded' = sessionEnded + 1
        /\ pc'[r] = "done"
        /\ result'[r] = Outcome("401", r, sends[r])
        /\ ~isRefreshing'
        /\ failedQueue' = failedQueue
     ]_vars

C9_Witness ==
  \E r \in Req :
    /\ pc[r] = "done" /\ retry[r] /\ sends[r] = 1
    /\ result[r] = Outcome("401", r, 1)
    /\ sessionEnded >= 1
    /\ getAccessToken(localStorage) = NULL

\* C10: clear on irrecoverable failure.  From the failure of a refresh call of
\* the interceptor until the next successful login or registration, both tokens
\* read absent and every request newly sent to a path outside the allow-list
\* leaves the gate without an Authorization header.
C10_ClearedUntilLogin ==
  [][/\ failedSinceLogin' =>
          /\ getAccessToken(localStorage') = NULL
          /\ getRefreshToken(localStorage') = NULL
     /\ \A r \in Req :
          failedSinceLogin /\ pc[r] = "new" /\ pc'[r] = "sent" /\ ~isAuthEndpoint(OpUrl[op'[r]])
            => auth'[r] = UNDEFINED
    ]_vars

\* the step in which the refresh call awaited by r ends in the catch block
RefreshCallFails(r) == pc[r] = "refreshing" /\ sessionEnded' = sessionEnded + 1

\* C11: when the refresh call fails, the caller whose 401 started the refresh is
\* rejected with its own 401 failure: the error of its attempt, not another value.
C11_RefresherGetsOwnFailure ==
  [][\A r \in Req :
       RefreshCallFails(r) =>
         /\ pc'[r] = "done"
         /\ result'[r] = Outcome("401", r, sends[r])
     ]_vars

\* the step in which the 401 of r finds the coordinator idle with no refresh token
\* stored: the cycle ends at once
NoTokenCycle(r) ==
  /\ Gets401(r) /\ sends[r] = 1 /\ NonAuthPath(url(r))
  /\ ~isRefreshing /\ ~Truthy(getRefreshToken(localStorage))
\* the step answers the attempt of r with something other than a 401
GetsNon401(r) == pc[r] = "sent" /\ pc'[r] = "done" /\ n401'[r] = n401[r]

\* the cycles that fail: the session-ended signal is emitted exactly once in the
\* step in which a refresh call fails and in the step in which a first 401 finds
\* no refresh token
SignalOnFailedCycle ==
  \A r \in Req :
    (pc[r] = "refreshing" /\ pc'[r] = "done") \/ NoTokenCycle(r)
      => sessionEnded' = sessionEnded + 1

\* the signal is not emitted by a successful refresh, by an answer that is not a
\* 401, or by a 401 on a path under /auth/
NoSignalOtherwise ==
  \A r \in Req :
    \/ RefreshSucceeds(r)
    \/ GetsNon401(r)
    \/ Gets401(r) /\ ~NonAuthPath(url(r))
    => sessionEnded' = sessionEnded

\* the signal is not emitted in the step that delivers a 401 to an attempt
\* re-issued after a refresh
NoSignalPostRetry ==
  \A r \in Req : ReissuedInFlight(r) /\ Gets401(r) => sessionEnded' = sessionEnded

\* C12: the session-ended signal is emitted once for every refresh cycle that
\* ends in failure (refresh call rejected or failed in transport, no refresh
\* token), and is not emitted by a successful refresh, an error that is not a
\* 401, a 401 on an auth endpoint, or the 401 of an attempt re-issued after a
\* refresh.
C12_SessionEndedSignal ==
  [][SignalOnFailedCycle /\ NoSignalOtherwise /\ NoSignalPostRetry]_vars

\* the path is one of login, registration, token refresh
AllowListed(u) ==
  \/ Includes(u, "/auth/login")
  \/ Includes(u, "/auth/registration")
  \/ Includes(u, "/auth/token/refresh")

\* C13: unauthenticated endpoints bypass attachment.  Whatever the credential
\* store holds, a request to the login, registration or token refresh path has
\* no Authorization header: the request gate adds none.
C13_AuthEndpointsBypassAttachment ==
  \A r \in Req : pc[r] # "new" /\ AllowListed(url(r)) => auth[r] = UNDEFINED

C13_Witness ==
  \E r, q \in Req :
    /\ op[r] = "login" /\ op[q] = "refreshAccessToken"
    /\ pc[r] = "sent" /\ pc[q] = "sent"
    /\ Truthy(getAccessToken(localStorage))
    /\ auth[r] = UNDEFINED /\ auth[q] = UNDEFINED

\* the step hands an attempt of r (first or re-issued) to the transport
Sends(r) == pc'[r] = "sent" /\ sends'[r] = sends[r] + 1

\* C14: attachment rule.  Every attempt, first or re-issued, to a path outside
\* the allow-list leaves the gate with Authorization "Bearer <the access token in
\* the store at that moment>" when the store holds one (a non-empty string), and
\* otherwise as it came to the gate: a first attempt with no Authorization
\* header, a re-issue with the header the response interceptor wrote from the
\* refresh response (an empty access value, which is also what was stored).
C14_AttachmentRule ==
  [][\A r \in Req :
       Sends(r) /\ ~AllowListed(OpUrl[op'[r]]) =>
         LET token == getItem(localStorage', TOKEN_KEY)
         IN IF token \notin {NULL, ""}
              THEN auth'[r] = "Bearer " \o token
              ELSE auth'[r] = IF sends[r] = 0 THEN UNDEFINED ELSE "Bearer " \o token
     ]_vars

C14_Witness ==
  \E r, q \in Req :
    /\ pc[r] = "sent" /\ why[r] = "resumed" /\ sends[r] = 2
    /\ pc[q] = "sent" /\ why[q] = "refresher" /\ sends[q] = 2
    /\ getItem(localStorage, TOKEN_KEY) = AccessTok(1)
    /\ auth[r] = "Bearer A1" /\ auth[q] = "Bearer A1"

\* the step changes nothing of the refresh state machine: flag, queue, refresh
\* calls in flight, retry marks, signal
CoordinatorUntouched ==
  /\ isRefreshing' = isRefreshing
  /\ failedQueue' = failedQueue
  /\ RefreshInFlight' = RefreshInFlight
  /\ retry' = retry
  /\ sessionEnded' = sessionEnded

\* C15: a 401 response to a login, registration or refresh request does not
\* enter the refresh state machine.  The interceptor rejects it as it is, issues
\* no refresh call and changes neither the flag, the queue nor the store.  What
\* the step shows is then the caller's own handling of that rejection: login and
\* register pass the error on and the store is as before; refreshAccessToken,
\* the caller of a refresh request made through api, catches the error, clears
\* the store itself and returns null.
C15_AuthEndpoint401NotCoordinated ==
  [][\A r \in Req :
       Gets401(r) /\ AllowListed(url(r)) =>
         /\ CoordinatorUntouched
         /\ pc'[r] = "done"
         /\ \A q \in Req \ {r} : pc'[q] = pc[q] /\ sends'[q] = sends[q]
         /\ sends'[r] = sends[r]
         /\ op[r] \in {"login", "register"} =>
              /\ result'[r] = Outcome("401", r, sends[r])
              /\ localStorage' = localStorage
              /\ sessionStorage' = sessionStorage
         /\ op[r] = "refreshAccessToken" =>
              /\ result'[r] = Outcome("null", r, sends[r])
              /\ localStorage' = clearTokens(localStorage)
              /\ sessionStorage' = clearTokens(sessionStorage)
     ]_vars

C15_Witness ==
  \E r, q \in Req :
    /\ op[r] = "login" /\ pc[r] = "done" /\ result[r] = Outcome("401", r, 1)
    /\ pc[q] = "refreshing" /\ isRefreshing
    /\ Truthy(getAccessToken(localStorage)) /\ Truthy(getRefreshToken(localStorage))

\* the errors that are not a 401 response: an error status, or no response at all
OtherErrors == {"500", "network"}

\* C16: a transport error or an error response other than 401 triggers no
\* refresh logic: no refresh call, no queueing, flag, queue and retry marks as
\* before, no other request touched.  The interceptor hands the caller the error
\* of its own attempt and writes no token: a resource call, login and register
\* reject with that error and both stored tokens are as before.  The authService
\* functions that handle the rejection themselves show their own effect:
\* getCurrentUser returns null; refreshAccessToken clears the store and returns
\* null; logout clears the store and resolves.
C16_OtherErrorsNotCoordinated ==
  [][\A r \in Req :
       GetsNon401(r) /\ (result'[r].k # "ok" \/ op[r] = "logout") =>
         /\ CoordinatorUntouched
         /\ sends' = sends
         /\ \A q \in Req \ {r} : pc'[q] = pc[q] /\ result'[q] = result[q]
         /\ op[r] \in {"get", "login", "register"} =>
              /\ result'[r] \in {Outcome(e, r, sends[r]) : e \in OtherErrors}
              /\ localStorage' = localStorage
              /\ sessionStorage' = sessionStorage
         /\ op[r] = "getCurrentUser" =>
              /\ result'[r] = Outcome("null", r, sends[r])
              /\ localStorage' = localStorage
              /\ sessionStorage' = sessionStorage
         /\ op[r] = "refreshAccessToken" =>
              /\ result'[r] = Outcome("null", r, sends[r])
              /\ localStorage' = clearTokens(localStorage)
         /\ op[r] = "logout" =>
              /\ result'[r] = Outcome("ok", r, sends[r])
              /\ localStorage' = clearTokens(localStorage)
     ]_vars

C16_Witness ==
  \E r, q \in Req :
    /\ op[r] = "get" /\ pc[r] = "done" /\ result[r] = Outcome("network", r, 1)
    /\ pc[q] = "refreshing" /\ isRefreshing
    /\ Truthy(getAccessToken(localStorage)) /\ Truthy(getRefreshToken(localStorage))

\* C17: a transport error of the refresh call has the same effects as its
\* rejection.  In both cases, and they differ in nothing but the error handed
\* on: both tokens are removed from both storage areas, every caller in the queue
\* and the refresher are rejected with the refresh error, the session-ended signal
\* is emitted once, flag and queue are back to idle and empty, and no refresh
\* call is issued again: none is in flight and no request is sent.
C17_TransportErrorAsRejection ==
  [][\A r \in Req :
       RefreshFails(r) =>
         /\ localStorage' = EmptyStorage
         /\ sessionStorage' = EmptyStorage
         /\ \A q \in Range(failedQueue) : pc'[q] = "done" /\ result'[q] = result'[r]
         /\ \A q \in Req \ (Range(failedQueue) \cup {r}) :
              pc'[q] = pc[q] /\ result'[q] = result[q]
         /\ sessionEnded' = sessionEnded + 1
         /\ ~isRefreshing'
         /\ failedQueue' = <<>>
         /\ RefreshInFlight' = {}
         /\ windowCalls' = windowCalls
         /\ sends' = sends /\ retry' = retry /\ auth' = auth
     ]_vars

C17_Witness ==
  \E r, q \in Req :
    /\ q # r
    /\ result[r] = Outcome("refreshNetwork", r, 0)
    /\ pc[q] = "done" /\ result[q] = result[r]
    /\ localStorage = EmptyStorage
    /\ sessionEnded = 1
    /\ ~isRefreshing /\ failedQueue = <<>>

\* the step in which the refresh request of authService.refreshAccessToken is
\* answered with new tokens
ServiceRefreshSucceeds(r) ==
  /\ pc[r] = "sent" /\ op[r] = "refreshAccessToken"
  /\ pc'[r] = "done" /\ result'[r].k = "ok"
\* after the step the store holds the access token just issued, and the refresh
\* token just issued or else the one it held before the step
StoresReturnedTokens ==
  /\ getItem(localStorage', TOKEN_KEY) = AccessTok(issued')
  /\ \/ getItem(localStorage', REFRESH_KEY) = RefreshTok(issued')
     \/ getItem(localStorage', REFRESH_KEY) = getItem(localStorage, REFRESH_KEY)
InterceptorStoresReturnedTokens ==
  \A r \in Req : RefreshSucceeds(r) /\ issued' = issued + 1 => StoresReturnedTokens
ServiceStoresReturnedTokens ==
  \A r \in Req : ServiceRefreshSucceeds(r) => StoresReturnedTokens

\* C18: after a successful refresh, by the interceptor or by refreshAccessToken,
\* the stored access token is the one the refresh returned, and the stored
\* refresh token is the returned one when the server issued one and otherwise
\* the value the store held before.
C18_StoredTokensAfterRefresh ==
  [][InterceptorStoresReturnedTokens /\ ServiceStoresReturnedTokens]_vars

\* the step in which the refresh call awaited by r settles, whatever the result
RefreshSettles(r) == pc[r] = "refreshing" /\ pc'[r] # "refreshing"
\* the requests whose suspended continuation is invoked in the step
LeaveQueue == {q \in Req : pc[q] = "queued" /\ pc'[q] # "queued"}

\* C19: FIFO drain.  The continuations of the requests queued during a refresh
\* are invoked in the order in which their 401 responses were queued, each once,
\* and in no step other than the one in which that refresh call settles.
C19_FifoDrain ==
  [][/\ LeaveQueue # {} => \E r \in Req : RefreshSettles(r)
     /\ \A r \in Req :
          RefreshSettles(r) =>
            /\ Range(drained') = LeaveQueue
            /\ Len(drained') = Cardinality(LeaveQueue)
            /\ LeaveQueue \subseteq Range(failedQueue)
            /\ \A i, j \in 1..Len(drained') :
                 i < j => queuedAt[drained'[i]] < queuedAt[drained'[j]]
    ]_vars

\* two requests were queued in the order opposite to the one they were called in,
\* and drained by a successful refresh
C19_Witness ==
  /\ Len(drained) = 2
  /\ drained[1] > drained[2]
  /\ queuedAt[drained[1]] < queuedAt[drained[2]]
  /\ \A i \in 1..2 : pc[drained[i]] = "sent" /\ why[drained[i]] = "resumed"

\* C20: RefreshState invariant.  In every reachable state a non-empty queue
\* implies that the flag is set; a step adds a request to the queue only while
\* the flag is set, before and after; and a step in which the flag goes from set
\* to clear leaves the queue empty.
C20_RefreshStateInvariant ==
  /\ [](failedQueue # <<>> => isRefreshing)
  /\ [][/\ Len(failedQueue') > Len(failedQueue) =>
             /\ isRefreshing /\ isRefreshing'
             /\ \E r \in Req : failedQueue' = Append(failedQueue, r) /\ Gets401(r)
        /\ isRefreshing /\ ~isRefreshing' => failedQueue' = <<>>
       ]_vars

\* a request was queued behind a refresh and the coordinator is idle again
C20_Witness ==
  \E q \in Req :
    /\ queuedAt[q] > 0 /\ pc[q] = "done" /\ result[q].k = "ok"
    /\ ~isRefreshing /\ failedQueue = <<>>

\* what a rejected caller can read from the error it is handed: the status (or
\* the absence of a response) and whether the error is the one of its own
\* request or the one of the refresh call.  Both are in the kind of the outcome.
SessionEndedKinds == {"refresh401", "refreshNetwork", "TypeError"}
DataFailedKinds == {"401", "500", "network"}
\* the step rejects r and emits the session-ended signal
EndsSession(r) == pc[r] # "done" /\ pc'[r] = "done" /\ sessionEnded' = sessionEnded + 1
\* the step rejects r with the failure of its own attempt and emits no signal
MerelyFails(r) ==
  /\ pc[r] = "sent" /\ pc'[r] = "done" /\ sessionEnded' = sessionEnded
  /\ result'[r].k \notin {"ok", "null"}

\* C21: the rejection handed to a caller whose request ended because the session
\* ended (refresh call failed, no refresh token) differs, in what the caller can
\* read from it, from every rejection of a request that merely failed (an error
\* that is not a 401, or the 401 of a retried attempt).
C21_SessionEndDistinguishable ==
  [][\A r \in Req :
       /\ EndsSession(r) => result'[r].k \in SessionEndedKinds
       /\ MerelyFails(r) => result'[r].k \in DataFailedKinds
     ]_vars

\* the step in which the api call of the operation of r settles
OpSettles(r, o) == op[r] = o /\ pc[r] = "sent" /\ pc'[r] = "done"

\* C22: when logout() settles, however its backend call ended (answered 2xx,
\* answered with an error status, 401 included, or failed in transport), both
\* tokens read absent in localStorage and in sessionStorage and logout() has
\* resolved; its request is never queued and never starts a refresh.
C22_LogoutClears ==
  [][\A r \in Req :
       /\ OpSettles(r, "logout") =>
            /\ getItem(localStorage', TOKEN_KEY) = NULL
            /\ getItem(localStorage', REFRESH_KEY) = NULL
            /\ getItem(sessionStorage', TOKEN_KEY) = NULL
            /\ getItem(sessionStorage', REFRESH_KEY) = NULL
            /\ result'[r].k = "ok"
       /\ op[r] = "logout" /\ pc[r] = "sent" => pc'[r] \in {"sent", "done"}
     ]_vars

\* a logout called with tokens stored whose backend call was answered 401
C22_Witness ==
  \E r \in Req :
    /\ op[r] = "logout" /\ pc[r] = "done" /\ n401[r] = 1
    /\ auth[r] = "Bearer A0"
    /\ result[r].k = "ok"
    /\ localStorage = EmptyStorage /\ sessionStorage = EmptyStorage

\* C23: login() and register() write the store if and only if their backend
\* call succeeds.  On success both entries are the access and refresh token the
\* server returned; on failure, a 401 included, the store is exactly as before,
\* no refresh call is made, and the request is neither queued nor retried.
C23_LoginWritesOnSuccessOnly ==
  [][\A r \in Req :
       /\ OpSettles(r, "login") \/ OpSettles(r, "register") =>
            IF result'[r].k = "ok"
              THEN /\ issued' = issued + 1
                   /\ getItem(localStorage', TOKEN_KEY) = AccessTok(issued')
                   /\ getItem(localStorage', REFRESH_KEY) = RefreshTok(issued')
              ELSE /\ localStorage' = localStorage
                   /\ sessionStorage' = sessionStorage
                   /\ CoordinatorUntouched
                   /\ sends' = sends
       /\ op[r] \in {"login", "register"} /\ pc[r] = "sent" => pc'[r] \in {"sent", "done"}
     ]_vars

\* a failed registration (401) left untouched what a login had stored
C23_Witness ==
  \E r, q \in Req :
    /\ op[r] = "login" /\ pc[r] = "done" /\ result[r].k = "ok"
    /\ op[q] = "register" /\ pc[q] = "done" /\ result[q] = Outcome("401", q, 1)
    /\ localStorage = setTokens(EmptyStorage, AccessTok(1), RefreshTok(1))

\* C24: setTokens(a, r) overwrites both entries whatever the store held: right
\* after it getAccessToken() returns a and getRefreshToken() returns r, for all
\* token strings a and r; on a store that was never set, or was cleared, both
\* getters return the absent marker (null).
C24_SetTokensOverwrites ==
  /\ \A a, r \in TokenValues :
       /\ getAccessToken(setTokens(localStorage, a, r)) = a
       /\ getRefreshToken(setTokens(localStorage, a, r)) = r
  /\ getAccessToken(EmptyStorage) = NULL /\ getRefreshToken(EmptyStorage) = NULL
  /\ getAccessToken(clearTokens(localStorage)) = NULL
  /\ getRefreshToken(clearTokens(localStorage)) = NULL

\* setTokens("", "R0") has overwritten a store that held other values or none
C24_Witness ==
  /\ localStorage = setTokens(EmptyStorage, "", "R0")
  /\ getAccessToken(localStorage) = "" /\ getRefreshToken(localStorage) = "R0"
  /\ sessionStorage = EmptyStorage

\* clearTokens() as a whole: what it leaves in localStorage and in sessionStorage
Cleared(stores) == <<clearTokens(stores[1]), clearTokens(stores[2])>>

\* C25: idempotent clear.  On any contents of the two storage areas (both keys,
\* one key, none) clearTokens() leaves both tokens absent in both areas, and
\* clearing twice leaves what clearing once leaves.
C25_ClearIdempotent ==
  LET once == Cleared(<<localStorage, sessionStorage>>)
  IN /\ \A area \in 1..2 :
          getItem(once[area], TOKEN_KEY) = NULL /\ getItem(once[area], REFRESH_KEY) = NULL
     /\ Cleared(once) = once

\* a partly populated store: a refresh token only in localStorage, an access
\* token only in sessionStorage
C25_Witness ==
  /\ getItem(localStorage, TOKEN_KEY) = NULL /\ getItem(localStorage, REFRESH_KEY) = "R0"
  /\ getItem(sessionStorage, TOKEN_KEY) = "A0" /\ getItem(sessionStorage, REFRESH_KEY) = NULL
  /\ Cleared(<<localStorage, sessionStorage>>) = <<EmptyStorage, EmptyStorage>>

\* C26: liveness, in the form a finite run decides.  Once every transport send
\* and every refresh call has settled (nothing is in flight), every request that
\* was made has settled: no caller is still suspended in the queue.
C26_EveryCallerSettles ==
  (\A r \in Req : pc[r] \notin {"sent", "refreshing"}) =>
    \A r \in Req : pc[r] \in {"new", "done"}

\* C27: when the refresh call succeeds with a new access token, the store holds
\* that token after the step, and every request re-issued in the step (the
\* refreshing caller's and every resumed queued one) leaves the request gate with
\* the new token: not the header of its failed attempt, nor the one whose 401
\* started the refresh.
C27_NewTokenBeforeReissue ==
  [][\A r \in Req : RefreshSucceeds(r) /\ issued' = issued + 1 =>
       /\ getAccessToken(localStorage') = AccessTok(issued')
       /\ Sends(r)
       /\ \A q \in Req : Sends(q) =>
            /\ auth'[q] = Bearer(AccessTok(issued'))
            /\ auth'[q] # auth[q]
            /\ auth'[q] # trig[r]]_vars
\* a refresh succeeded while a caller was queued: both re-issued requests are in
\* flight with the token now stored, which is not the one that was refused
C27_Witness ==
  \E r, q \in Req :
    /\ why[r] = "refresher" /\ why[q] = "resumed"
    /\ pc[r] = "sent" /\ pc[q] = "sent"
    /\ auth[r] = Bearer(getAccessToken(localStorage))
    /\ auth[q] = auth[r]
    /\ trig[r] # auth[r]
    /\ trig[r] # UNDEFINED

\* the step in which the request the refreshing caller r re-issued after a
\* successful refresh is answered with a failure
ReissueFails(r) ==
  /\ pc[r] = "sent" /\ why[r] = "refresher"
  /\ pc'[r] # "sent"
  /\ result'[r].k # "ok"

\* C28: when the request re-issued by the refreshing caller fails (any error
\* status, a second 401 included, or a transport error), that caller is rejected
\* with that failure and nothing else happens: the store keeps what the refresh
\* wrote, no session-ended signal is emitted, no refresh call is started, the
\* flag and the queue are as they were, and every other request (the resumed
\* ones included) is where it was.
C28_ReissueFailureIsNotRefreshFailure ==
  [][\A r \in Req : ReissueFails(r) =>
       /\ pc'[r] = "done"
       /\ result'[r].k \in DataFailedKinds
       /\ result'[r].r = r /\ result'[r].n = sends[r]
       /\ localStorage' = localStorage
       /\ sessionStorage' = sessionStorage
       /\ sessionEnded' = sessionEnded
       /\ isRefreshing' = isRefreshing
       /\ failedQueue' = failedQueue
       /\ \A q \in Req \ {r} :
            /\ pc'[q] = pc[q]
            /\ result'[q] = result[q]
            /\ auth'[q] = auth[q]
            /\ sends'[q] = sends[q]]_vars
\* the refreshing caller was rejected with the second 401 of its request while
\* the request resumed from the queue is still in flight, the new token is still
\* stored and no signal was emitted
C28_Witness ==
  \E r, q \in Req :
    /\ why[r] = "refresher" /\ pc[r] = "done"
    /\ result[r] = Outcome("401", r, 2) /\ n401[r] = 2
    /\ why[q] = "resumed" /\ pc[q] = "sent"
    /\ issued >= 1
    /\ getAccessToken(localStorage) = AccessTok(issued)
    /\ Truthy(getRefreshToken(localStorage))
    /\ sessionEnded = 0

\* the number of refresh calls the interceptor issued for the requests of S
RECURSIVE TotalRefreshCalls(_)
TotalRefreshCalls(S) ==
  IF S = {} THEN 0
  ELSE LET r == CHOOSE x \in S : TRUE
       IN refreshCalls[r] + TotalRefreshCalls(S \ {r})
\* the logical requests that received a 401
Received401 == {r \in Req : n401[r] >= 1}

\* C29: a logical request makes the interceptor call the refresh endpoint at most
\* once in its whole life; a request whose refresh call is in flight is already
\* marked as retried, with the flag set; and the refresh calls the interceptor
\* issued are never more than the requests that received a 401.
C29_OneRefreshPerRequest ==
  /\ \A r \in Req :
       /\ refreshCalls[r] <= 1
       /\ refreshCalls[r] = 1 => retry[r] /\ r \in Received401
       /\ pc[r] = "refreshing" => retry[r] /\ isRefreshing /\ refreshCalls[r] = 1
  /\ TotalRefreshCalls(Req) <= Cardinality(Received401)
\* two requests each started one refresh call, and one of them has been rejected
\* with its second 401 without starting another
C29_Witness ==
  \E r, q \in Req :
    /\ r # q
    /\ refreshCalls[r] = 1 /\ refreshCalls[q] = 1
    /\ n401[r] = 2 /\ pc[r] = "done" /\ result[r].k = "401"
    /\ TotalRefreshCalls(Req) = 2

\* both tokens read absent in both storage areas
TokensAbsent ==
  \A store \in {localStorage, sessionStorage} :
    getAccessToken(store) = NULL /\ getRefreshToken(store) = NULL
\* a logout() has completed and no login or registration has succeeded
LoggedOut ==
  /\ \E l \in Req : op[l] = "logout" /\ pc[l] = "done"
  /\ \A q \in Req : op[q] \in {"login", "register"} => result[q].k # "ok"
\* the step in which a login or a registration succeeds
LoginSucceeds ==
  \E q \in Req : OpSettles(q, op[q]) /\ op[q] \in {"login", "register"} /\ result'[q].k = "ok"

\* C30: once logout() has completed, with both tokens absent, they stay absent
\* until a login or a registration succeeds: no other step writes a token.
C30_AbsentAfterLogout ==
  [][LoggedOut /\ TokensAbsent /\ ~LoginSucceeds =>
       getAccessToken(localStorage') = NULL /\ getRefreshToken(localStorage') = NULL]_vars
====
